---- MODULE Spec2Model ----
(***************************************************************************)
(* A model of src/bmic.py: the BMI calculator's persistence functions      *)
(* (load_data, save_data), its calculation functions (calculate_bmi,       *)
(* classify_bmi) and the five handlers of BMICalculatorApp.                *)
(*                                                                         *)
(* Numbers are fixed point: a weight is in hundredths of a kilogram, a     *)
(* form height in hundredths of its unit, a converted height in units of   *)
(* 1e-4 m and a bmi in hundredths.  A string is a sequence of characters.  *)
(* A JSON object (a Python dict) is a sequence of key/value pairs in       *)
(* insertion order, which is the order import_data iterates in.            *)
(***************************************************************************)
EXTENDS Integers, Sequences, FiniteSets

VARIABLES
    pc,        \* "start" before BMICalculatorApp(root), "running" in mainloop, "dead"
    data,      \* self.data
    files,     \* the file system: path -> file
    result,    \* self.result_label
    now,       \* the clock datetime.now() reads
    notice     \* what the last handler showed: a messagebox title, "" or "Traceback"

vars == <<pc, data, files, result, now, notice>>

----------------------------------------------------------------------------
(* Bounds *)

MaxEntries == 3   \* most entries the store in memory may hold
MaxClock == 2     \* number of measurements Calculate may take

----------------------------------------------------------------------------
(* Values *)

DATA_FILE == "bmi_data.json"

BMI_CATEGORIES ==
    << [lower |-> 0,    upper |-> 1850,  category |-> "Underweight"],
       [lower |-> 1850, upper |-> 2490,  category |-> "Normal weight"],
       [lower |-> 2500, upper |-> 2990,  category |-> "Overweight"],
       [lower |-> 3000, upper |-> 10000, category |-> "Obese"] >>

Categories == {BMI_CATEGORIES[i].category : i \in 1..Len(BMI_CATEGORIES)}

Units == {"m", "cm", "ft", "in"}

\* JSON values: a list of entries, a number, an object, a top-level array.
JList(items) == [type |-> "list", items |-> items]
JNumber == [type |-> "number", items |-> <<>>]
Dict(pairs) == [type |-> "dict", pairs |-> pairs]
JArray == [type |-> "list", pairs |-> <<>>]
Pair(k, v) == [key |-> k, value |-> v]

\* Files: absent, text json.load rejects, or the text of a JSON document.
NoFile == [kind |-> "absent", doc |-> Dict(<<>>)]
Garbage == [kind |-> "garbage", doc |-> Dict(<<>>)]
JsonFile(doc) == [kind |-> "json", doc |-> doc]

\* A measurement taken before this session, as found in files.
OldEntry == [date |-> 0, bmi |-> 2200, category |-> "Normal weight"]

\* What bmi_data.json may hold when the program starts.
StartupFiles ==
    { NoFile,
      Garbage,
      JsonFile(JArray),
      JsonFile(Dict(<< Pair(<<"a">>, JNumber) >>)),
      JsonFile(Dict(<< Pair(<<"a">>, JList(<<OldEntry>>)) >>)) }

Paths == {DATA_FILE, "export.json", "partial.json", "anon.json", "locked.json"}

\* The files the user may pick in a dialog; "" is a cancelled dialog.
ExportPaths == {"", DATA_FILE, "export.json", "locked.json"}
ImportPaths == {"", DATA_FILE, "export.json", "partial.json", "anon.json", "locked.json"}

\* The paths open(path, "w") fails on.
ReadOnly == {"locked.json"}

\* Other files on disk when the program starts.
OtherFiles(p) ==
    CASE p = "export.json" -> NoFile
      [] p = "partial.json" ->
            JsonFile(Dict(<< Pair(<<"a">>, JList(<<OldEntry>>)), Pair(<<"b">>, JNumber) >>))
      [] p = "anon.json" -> JsonFile(Dict(<< Pair(<<>>, JList(<<OldEntry>>)) >>))
      [] OTHER -> Garbage

\* Form texts.  A number text carries its value; float() rejects the other.
Num(v) == [num |-> TRUE, val |-> v]
NotANumber == [num |-> FALSE, val |-> 0]

RawNames == { <<>>, <<" ">>, <<"a">>, <<" ", "a", " ">>, <<"b">> }
WeightTexts == { NotANumber, Num(2990), Num(7200) }
Height(text, unit) == [text |-> text, unit |-> unit]
HeightInputs ==
    { Height(Num(170), "m"), Height(Num(20000), "cm"), Height(Num(251), "m") }

\* The inputs the calculation alone is exercised on.
CalcWeights ==
    { NotANumber, Num(2990), Num(3000), Num(5000), Num(6000), Num(7200), Num(7400), Num(7404),
      Num(8000), Num(9000), Num(9960), Num(9964), Num(10000), Num(11960),
      Num(12000), Num(20000), Num(30000), Num(30001) }
CalcHeights ==
    { Height(NotANumber, "m"), Height(Num(99), "m"), Height(Num(100), "m"),
      Height(Num(170), "m"), Height(Num(200), "m"), Height(Num(250), "m"),
      Height(Num(251), "m"), Height(Num(9900), "cm"), Height(Num(17000), "cm"),
      Height(Num(25100), "cm"), Height(Num(300), "ft"), Height(Num(500), "ft"),
      Height(Num(600), "ft"), Height(Num(900), "ft"), Height(Num(3900), "in"),
      Height(Num(7000), "in"), Height(Num(9900), "in") }

NoResult == [shown |-> FALSE, bmi |-> 0, category |-> ""]

\* An exception no handler catches: the interpreter (at startup) or Tk's
\* report_callback_exception (in a handler) prints its traceback.
Traceback == "Traceback"

----------------------------------------------------------------------------
(* Strings and dicts *)

Whitespace == {" "}

RECURSIVE lstrip(_)
lstrip(s) == IF s # <<>> /\ Head(s) \in Whitespace THEN lstrip(Tail(s)) ELSE s

RECURSIVE rstrip(_)
rstrip(s) ==
    IF s # <<>> /\ s[Len(s)] \in Whitespace THEN rstrip(SubSeq(s, 1, Len(s) - 1)) ELSE s

\* str.strip()
strip(s) == rstrip(lstrip(s))

\* key in d
dict_has(d, k) == \E i \in 1..Len(d.pairs) : d.pairs[i].key = k

\* d[key]
dict_get(d, k) == d.pairs[CHOOSE i \in 1..Len(d.pairs) : d.pairs[i].key = k].value

\* d[key] = v for a key of d
dict_set(d, k, v) ==
    Dict([i \in 1..Len(d.pairs) |->
            IF d.pairs[i].key = k THEN Pair(k, v) ELSE d.pairs[i]])

\* d.setdefault(key, []): the dict afterwards
setdefault(d, k) == IF dict_has(d, k) THEN d ELSE Dict(Append(d.pairs, Pair(k, JList(<<>>))))

IsPrefix(s, t) == Len(s) <= Len(t) /\ SubSeq(t, 1, Len(s)) = s

----------------------------------------------------------------------------
(* Persistence *)

\* json.load(f): raises on text that is no JSON document
json_load(file) == [raised |-> file.kind # "json", value |-> file.doc]

\* json.dump(value, f, indent=4): the file written
json_dump(value) == JsonFile(value)

\* open(path, "w") and json.dump: raises on a path that cannot be written
write_file(fs, path, value) ==
    IF path \in ReadOnly
    THEN [raised |-> TRUE, files |-> fs]
    ELSE [raised |-> FALSE, files |-> [fs EXCEPT ![path] = json_dump(value)]]

\* load_data(): {} without a file, else whatever document the file holds
load_data ==
    IF files[DATA_FILE].kind # "absent"
    THEN json_load(files[DATA_FILE])
    ELSE [raised |-> FALSE, value |-> Dict(<<>>)]

\* save_data(data)
save_data(d) == write_file(files, DATA_FILE, d)

----------------------------------------------------------------------------
(* Calculation *)

\* round(weight / (height ** 2), 2), in hundredths: the quotient
\* weight * 10^8 / height^2 by long division (no intermediate value leaves
\* 32 bits for a weight up to 300.01 kg and a height of 1 m to 2.5 m),
\* rounded to the nearest integer on its next digit.
calculate_bmi(weight, height) ==
    LET x == weight * 10000
        q1 == x \div height
        r1 == x % height
        q2 == q1 * 10000 + (r1 * 10000) \div height
        r2 == (r1 * 10000) % height
        whole == q2 \div height
        s == q2 % height
        digit == (10 * s + (10 * r2) \div height) \div height
    IN  whole + (IF digit >= 5 THEN 1 ELSE 0)

RECURSIVE scan_categories(_, _)
scan_categories(i, bmi) ==
    IF i > Len(BMI_CATEGORIES) THEN "Unknown"
    ELSE IF BMI_CATEGORIES[i].lower <= bmi /\ bmi <= BMI_CATEGORIES[i].upper
         THEN BMI_CATEGORIES[i].category
         ELSE scan_categories(i + 1, bmi)

\* classify_bmi with the table scanned from its last row (a mutant)
classify_bmi_last_match(bmi) ==
    LET hits == {i \in 1..Len(BMI_CATEGORIES) :
                    BMI_CATEGORIES[i].lower <= bmi /\ bmi <= BMI_CATEGORIES[i].upper}
    IN  IF hits = {} THEN "Unknown"
        ELSE BMI_CATEGORIES[CHOOSE i \in hits : \A j \in hits : j <= i].category

classify_bmi(bmi) == scan_categories(1, bmi)

\* The conversion of the form's height to meters (units of 1e-4 m).
to_meters(height, unit) ==
    CASE unit = "cm" -> height
      [] unit = "ft" -> (height * 3048) \div 100
      [] unit = "in" -> (height * 254) \div 100
      [] OTHER -> height * 100

\* The ValueError calculate_bmi's try block raises before it computes, "" if none.
validation_error(username, weight, height, unit) ==
    IF ~weight.num \/ ~height.num THEN "could not convert string to float"
    ELSE IF username = <<>> THEN "User name is required."
    ELSE IF ~(3000 <= weight.val /\ weight.val <= 30000)
         THEN "Weight out of range (30-300 kg)."
    ELSE IF unit \notin {"cm", "ft", "in", "m"} THEN "Invalid height unit selected."
    ELSE IF ~(10000 <= to_meters(height.val, unit) /\ to_meters(height.val, unit) <= 25000)
         THEN "Height out of range (1.0-2.5 m after conversion)."
    ELSE ""

----------------------------------------------------------------------------
(* The store in memory *)

\* self.data.setdefault(username, []).append(entry) for a new list (a mutant):
\* the user's record is replaced by the one entry
store_entry_overwrite(d, username, entry) ==
    IF d.type # "dict" THEN [raised |-> TRUE, data |-> d]
    ELSE [raised |-> FALSE,
          data |-> dict_set(setdefault(d, username), username, JList(<<entry>>))]

\* self.data.setdefault(username, []).append(entry): raises AttributeError on a
\* store that is no dict and on a record that is no list
store_entry(d, username, entry) ==
    IF d.type # "dict" THEN [raised |-> TRUE, data |-> d]
    ELSE LET d1 == setdefault(d, username)
             record == dict_get(d1, username)
         IN  IF record.type # "list" THEN [raised |-> TRUE, data |-> d1]
             ELSE [raised |-> FALSE,
                   data |-> dict_set(d1, username, JList(Append(record.items, entry)))]

\* extend that puts the imported entries first (a mutant)
extend_entries_prepend(d, user, entries) ==
    IF d.type # "dict" THEN [raised |-> TRUE, data |-> d]
    ELSE LET d1 == setdefault(d, user)
             record == dict_get(d1, user)
         IN  IF record.type # "list" \/ entries.type # "list"
             THEN [raised |-> TRUE, data |-> d1]
             ELSE [raised |-> FALSE,
                   data |-> dict_set(d1, user, JList(entries.items \o record.items))]

\* self.data.setdefault(user, []).extend(entries): setdefault first, then
\* AttributeError on a record that is no list, TypeError on entries that are none
extend_entries(d, user, entries) ==
    IF d.type # "dict" THEN [raised |-> TRUE, data |-> d]
    ELSE LET d1 == setdefault(d, user)
             record == dict_get(d1, user)
         IN  IF record.type # "list" \/ entries.type # "list"
             THEN [raised |-> TRUE, data |-> d1]
             ELSE [raised |-> FALSE,
                   data |-> dict_set(d1, user, JList(record.items \o entries.items))]

\* for user, entries in imported_data.items(): ..., from the i-th pair on;
\* the loop ends at the first exception, with what it merged so far
RECURSIVE merge_from(_, _, _)
merge_from(d, pairs, i) ==
    IF i > Len(pairs) THEN [raised |-> FALSE, data |-> d]
    ELSE LET step == extend_entries(d, pairs[i].key, pairs[i].value)
         IN  IF step.raised THEN step ELSE merge_from(step.data, pairs, i + 1)

\* The number of entries the store holds.
RECURSIVE count_entries(_, _)
count_entries(pairs, i) ==
    IF i > Len(pairs) THEN 0
    ELSE Len(pairs[i].value.items) + count_entries(pairs, i + 1)

WithinBounds(d) == d.type = "dict" => count_entries(d.pairs, 1) <= MaxEntries

----------------------------------------------------------------------------
(* The program *)

Init ==
    /\ pc = "start"
    /\ data = Dict(<<>>)
    /\ \E f \in StartupFiles :
           files = [p \in Paths |-> IF p = DATA_FILE THEN f ELSE OtherFiles(p)]
    /\ result = NoResult
    /\ now = 1
    /\ notice = ""

\* BMICalculatorApp.__init__: an exception of load_data ends the program
Startup ==
    /\ pc = "start"
    /\ IF load_data.raised
       THEN /\ pc' = "dead"
            /\ notice' = Traceback
            /\ UNCHANGED data
       ELSE /\ pc' = "running"
            /\ data' = load_data.value
            /\ notice' = ""
    /\ UNCHANGED <<files, result, now>>

\* BMICalculatorApp.calculate_bmi with the form holding these texts
Calculate(rawname, weight, height, unit) ==
    LET username == strip(rawname)
        msg == validation_error(username, weight, height, unit)
        bmi == calculate_bmi(weight.val, to_meters(height.val, unit))
        category == classify_bmi(bmi)
        entry == [date |-> now, bmi |-> bmi, category |-> category]
        stored == store_entry(data, username, entry)
        saved == save_data(stored.data)
    IN  /\ pc = "running"
        /\ IF msg # ""
           THEN /\ notice' = "Input Error"
                /\ UNCHANGED <<data, files, result, now>>
           ELSE /\ now <= MaxClock
                /\ WithinBounds(stored.data)
                /\ result' = [shown |-> TRUE, bmi |-> bmi, category |-> category]
                /\ now' = now + 1
                /\ data' = stored.data
                /\ IF stored.raised
                   THEN /\ notice' = Traceback
                        /\ UNCHANGED files
                   ELSE IF saved.raised
                   THEN /\ notice' = Traceback
                        /\ UNCHANGED files
                   ELSE /\ notice' = ""
                        /\ files' = saved.files
        /\ UNCHANGED pc

\* The rows view_history and show_trend read of self.data[username]
read_history(rawname) ==
    LET username == strip(rawname)
    IN  /\ pc = "running"
        /\ IF username = <<>> \/ data.type # "dict" \/ ~dict_has(data, username)
           THEN notice' = "No Data"
           ELSE IF dict_get(data, username).type # "list"
           THEN notice' = Traceback
           ELSE notice' = ""
        /\ UNCHANGED <<pc, data, files, result, now>>

\* BMICalculatorApp.view_history
ViewHistory(rawname) == read_history(rawname)

\* BMICalculatorApp.show_trend
ShowTrend(rawname) == read_history(rawname)

\* BMICalculatorApp.export_data with this path chosen in the dialog
Export(path) ==
    LET written == write_file(files, path, data)
    IN  /\ pc = "running"
        /\ IF path = ""
           THEN /\ notice' = ""
                /\ UNCHANGED files
           ELSE IF written.raised
           THEN /\ notice' = Traceback
                /\ UNCHANGED files
           ELSE /\ notice' = "Export Successful"
                /\ files' = written.files
        /\ UNCHANGED <<pc, data, result, now>>

\* BMICalculatorApp.import_data with this path chosen in the dialog
Import(path) ==
    LET loaded == json_load(files[path])
        merged == merge_from(data, loaded.value.pairs, 1)
        saved == save_data(merged.data)
    IN  /\ pc = "running"
        /\ IF path = ""
           THEN /\ notice' = ""
                /\ UNCHANGED <<data, files>>
           ELSE IF files[path].kind = "absent"
           THEN /\ notice' = "Import Failed"
                /\ UNCHANGED <<data, files>>
           ELSE IF loaded.raised
           THEN /\ notice' = "Import Failed"
                /\ UNCHANGED <<data, files>>
           ELSE IF loaded.value.type # "dict"
           THEN /\ notice' = "Import Failed"
                /\ UNCHANGED <<data, files>>
           ELSE /\ WithinBounds(merged.data)
                /\ data' = merged.data
                /\ IF merged.raised
                   THEN /\ notice' = "Import Failed"
                        /\ UNCHANGED files
                   ELSE IF saved.raised
                   THEN /\ notice' = "Import Failed"
                        /\ UNCHANGED files
                   ELSE /\ notice' = "Import Successful"
                        /\ files' = saved.files
        /\ UNCHANGED <<pc, result, now>>

Next ==
    \/ Startup
    \/ \E rawname \in RawNames, weight \in WeightTexts, height \in HeightInputs :
          Calculate(rawname, weight, height.text, height.unit)
    \/ \E rawname \in RawNames : ViewHistory(rawname)
    \/ \E rawname \in RawNames : ShowTrend(rawname)
    \/ \E path \in ExportPaths : Export(path)
    \/ \E path \in ImportPaths : Import(path)

Spec == Init /\ [][Next]_vars

\* The store file is absent when the program starts.
InitEmpty == Init /\ files[DATA_FILE] = NoFile

SpecEmpty == InitEmpty /\ [][Next]_vars

----------------------------------------------------------------------------
(* The calculation alone *)

InitCalc ==
    /\ pc = "running"
    /\ data = Dict(<<>>)
    /\ files = [p \in Paths |-> OtherFiles(p)]
    /\ result = NoResult
    /\ now = 1
    /\ notice = ""

\* calculate_bmi's try block up to the result label, for a user name given
Compute(weight, height, unit) ==
    LET msg == validation_error(<<"a">>, weight, height, unit)
        bmi == calculate_bmi(weight.val, to_meters(height.val, unit))
    IN  /\ IF msg # ""
           THEN /\ notice' = "Input Error"
                /\ UNCHANGED result
           ELSE /\ notice' = ""
                /\ result' = [shown |-> TRUE, bmi |-> bmi, category |-> classify_bmi(bmi)]
        /\ UNCHANGED <<pc, data, files, now>>

NextCalc ==
    \E weight \in CalcWeights, height \in CalcHeights :
        Compute(weight, height.text, height.unit)

SpecCalc == InitCalc /\ [][NextCalc]_vars

----------------------------------------------------------------------------
(* Properties *)

\* The entries of the store in memory, and those taken in this session.
Entries(d) ==
    IF d.type # "dict" THEN {}
    ELSE UNION { {d.pairs[i].value.items[j] : j \in 1..Len(d.pairs[i].value.items)} :
                    i \in 1..Len(d.pairs) }

SessionEntries(d) == {e \in Entries(d) : e.date >= 1}

\* The rows of the table whose inclusive range holds bmi.
Rows(bmi) ==
    {i \in 1..Len(BMI_CATEGORIES) :
        BMI_CATEGORIES[i].lower <= bmi /\ bmi <= BMI_CATEGORIES[i].upper}

\* C1: the category shown for a bmi is that of the first row of the table whose
\* inclusive range holds the bmi ("Unknown" when no row does), so 18.5 is
\* Underweight, 18.51 and 24.9 are Normal weight, 25 and 29.9 are Overweight
\* and 30 is Obese.
ClassifyFirstMatch ==
    result.shown =>
        /\ IF Rows(result.bmi) = {} THEN result.category = "Unknown"
           ELSE \E i \in Rows(result.bmi) :
                    /\ \A j \in Rows(result.bmi) : i <= j
                    /\ result.category = BMI_CATEGORIES[i].category
        /\ result.bmi = 1850 => result.category = "Underweight"
        /\ result.bmi = 1851 => result.category = "Normal weight"
        /\ result.bmi = 2490 => result.category = "Normal weight"
        /\ result.bmi = 2500 => result.category = "Overweight"
        /\ result.bmi = 2990 => result.category = "Overweight"
        /\ result.bmi = 3000 => result.category = "Obese"

\* A bmi of exactly 18.5, which two rows hold, was classified.
ClassifiedSharedBoundary ==
    result.shown /\ result.bmi = 1850 /\ result.category = "Underweight"

\* C2: every bmi Calculate computes from a valid form is above 0 and gets one
\* of the four categories, never "Unknown", on the label and in the store.
CalculateNeverUnknown ==
    /\ result.shown => result.bmi > 0 /\ result.category \in Categories
    /\ \A e \in SessionEntries(data) : e.bmi > 0 /\ e.category \in Categories

\* Calculate appended one entry, taken now, to the user's record.
Recorded(username) ==
    /\ data.type = "dict" /\ data'.type = "dict"
    /\ dict_has(data', username)
    /\ dict_get(data', username).type = "list"
    /\ LET before == IF dict_has(data, username) THEN dict_get(data, username).items
                     ELSE <<>>
           after == dict_get(data', username).items
       IN  /\ Len(after) = Len(before) + 1
           /\ SubSeq(after, 1, Len(before)) = before
           /\ after[Len(after)].date = now

\* C3: Calculate records a measurement exactly when the stripped name is not
\* empty, the weight is in [30, 300] and the converted height in [1.0, 2.5];
\* otherwise it reports a validation error and records nothing.
CalculateRecordsIffValid ==
    [][\A rawname \in RawNames, weight \in WeightTexts, height \in HeightInputs :
          Calculate(rawname, weight, height.text, height.unit) =>
              IF validation_error(strip(rawname), weight, height.text, height.unit) = ""
              THEN Recorded(strip(rawname))
              ELSE notice' = "Input Error" /\ data' = data]_vars

\* The record of user after entries of a file were appended to it.
Appended(record, doc, user) ==
    IF dict_has(doc, user)
    THEN JList(record.items \o dict_get(doc, user).items)
    ELSE record

\* C4: an import that succeeds leaves every user of the store with the
\* sequence the user had, followed by the file's entries for that user in the
\* file's order; so does the import of a file export_data wrote.
ImportAppendsInOrder ==
    [][\A path \in ImportPaths :
          (notice' = "Import Successful" /\ data.type = "dict" /\ Import(path)) =>
              /\ data'.type = "dict"
              /\ \A i \in 1..Len(data.pairs) :
                    LET user == data.pairs[i].key
                    IN  /\ dict_has(data', user)
                        /\ dict_get(data', user)
                             = Appended(data.pairs[i].value, files[path].doc, user)]_vars

\* An exported store with a session entry was imported back: a user's record
\* is the exported sequence twice.
RoundTripDone ==
    /\ notice = "Import Successful"
    /\ data.type = "dict"
    /\ files["export.json"].kind = "json"
    /\ files["export.json"].doc.type = "dict"
    /\ \E i \in 1..Len(files["export.json"].doc.pairs) :
          LET exported == files["export.json"].doc.pairs[i]
          IN  /\ exported.value.type = "list"
              /\ \E j \in 1..Len(exported.value.items) : exported.value.items[j].date >= 1
              /\ dict_has(data, exported.key)
              /\ dict_get(data, exported.key)
                   = JList(exported.value.items \o exported.value.items)

\* C5: after startup the store in memory is a mapping from user names to lists
\* of measurements; a store file holding a JSON array leaves it empty.
StoreIsMapping ==
    pc = "running" =>
        /\ data.type = "dict"
        /\ \A i \in 1..Len(data.pairs) : data.pairs[i].value.type = "list"

\* C6: no failure escapes the handler that met it or ends the program.
NoFailureEscapes == pc # "dead" /\ notice # Traceback

\* C7: every step that changes the store in memory leaves the store file
\* holding that store.
StoreFileFollowsMemory ==
    [][(pc = "running" /\ data' # data) => files'[DATA_FILE] = json_dump(data')]_vars

\* C8: started without a store file, no user record is keyed by the empty name.
NoEmptyUserName ==
    data.type = "dict" => \A i \in 1..Len(data.pairs) : data.pairs[i].key # <<>>

\* C9: user records only grow: a step of the running program either leaves
\* the store in memory as it was, or it is no Export, ViewHistory or ShowTrend
\* and it keeps every user, with the user's sequence a prefix of the new one.
AppendOnly ==
    [][pc = "running" =>
          \/ data' = data
          \/ /\ data.type = "dict" /\ data'.type = "dict"
             /\ \A i \in 1..Len(data.pairs) :
                   LET user == data.pairs[i].key
                       record == data.pairs[i].value
                   IN  /\ dict_has(data', user)
                       /\ IF record.type = "list"
                          THEN /\ dict_get(data', user).type = "list"
                               /\ IsPrefix(record.items, dict_get(data', user).items)
                          ELSE dict_get(data', user) = record
             /\ ~ \/ \E path \in ExportPaths : Export(path)
                  \/ \E rawname \in RawNames : ViewHistory(rawname)
                  \/ \E rawname \in RawNames : ShowTrend(rawname)]_vars

\* Calculate appended a session entry to a record that held an entry already.
AppendedToExisting ==
    /\ data.type = "dict"
    /\ \E i \in 1..Len(data.pairs) :
          /\ data.pairs[i].value.type = "list"
          /\ Len(data.pairs[i].value.items) >= 2
          /\ data.pairs[i].value.items[Len(data.pairs[i].value.items)].date >= 1

\* C10: a Calculate or an Import that reports an error leaves the store in
\* memory as it was.
FailedActionChangesNothing ==
    [][notice' \in {"Input Error", "Import Failed"} => data' = data]_vars

====
